---- MODULE Spec2Model ----
(***************************************************************************)
(* Model of the bingsu shop backend: the Stock model statics and the stock *)
(* routes, the MenuCode model statics and the menu-code routes, and the    *)
(* POST /api/orders/create handler.                                        *)
(*                                                                         *)
(* Every request handler is an async function.  Between two awaits the     *)
(* handler runs without interruption; each awaited database call is one    *)
(* atomic step on the store.  A handler is therefore a sequence of atomic  *)
(* steps, one per database call, and the steps of concurrent requests      *)
(* interleave.  A mongoose save() of a loaded document writes the modified *)
(* scalar paths with $set (the value computed in memory from the earlier   *)
(* read) and pushes to arrays with $push.                                  *)
(*                                                                         *)
(* Time is counted in units of 24 hours.                                   *)
(***************************************************************************)
EXTENDS Integers, Sequences, FiniteSets, TLC

(* ----------------------------- bounds ---------------------------------- *)
NProc == 2            \* concurrent requests in flight
MaxTime == 2          \* the clock runs 0..MaxTime
MaxStockDocs == 3     \* stock documents the collection can hold
InitQtyMax == 2       \* largest quantity of a stock document at the start
MaxQty == 3           \* increments are only issued while the result stays <= MaxQty
MaxAmt == 2           \* largest amount of a decrement / increment / adjustment
MaxStockOps == 3      \* requests issued in one behaviour of the stock ledger
MaxReorder == 1       \* largest reorderLevel of a stock document at the start
MaxOrderReqs == 2     \* requests issued in one behaviour of order creation
MaxRedeems == 6       \* requests issued in one behaviour of redemptions alone
MaxCodeOps == 3       \* requests issued in one behaviour of the menu code operations
MaxCollisions == 1    \* collisions generateCode draws in a row next to the other operations
MaxStoredOrders == 2  \* orders stored before the status updates
MaxStatusOps == 3     \* requests issued in one behaviour of the status updates
MaxPriceReqs == 2     \* requests issued in one behaviour of the pricing runs
MaxLoyaltyOrders == 11 \* orders one customer places in a row
MaxGenReqs == 2       \* requests issued in one behaviour of code generation
MaxTrackOps == 3      \* requests issued in one behaviour of the tracking lookups
MaxInitOps == 2       \* requests issued in one behaviour of the stock initialisation

Procs == 1..NProc
StockIds == 1..MaxStockDocs
Amounts == 1..MaxAmt
Adjustments == (0 - MaxAmt)..MaxAmt

VARIABLES
  now,        \* current time
  stock,      \* Stock collection: document id -> document
  pc,         \* per request slot: position of the handler
  loc,        \* per request slot: the handler's local variables
  last,       \* the response of the request that finished last
  initQty,    \* history: quantity of each stock document when it first existed
  decTotal,   \* history: units removed by successful decrements, per document
  incTotal,   \* history: units added by successful increments, per document
  decCnt,     \* history: successful reduceStock calls per document and amount
  codes,      \* MenuCode collection: code -> document (code carries a unique index)
  orders,     \* Order collection: the set of stored order documents
  users,      \* User collection: user id -> loyalty fields of the document
  redeemOk,   \* history: successful validateAndUse calls per code
  reqs        \* history: requests that have arrived so far

stockVars == <<stock, initQty, decTotal, incTotal, decCnt>>
nonStock == <<codes, orders, users, redeemOk>>
vars == <<now, reqs, pc, loc, last, stockVars, nonStock>>

(* ------------------------------ Stock ---------------------------------- *)
\* the (itemType, name) pairs requests are issued for
StockKeys == {<<"flavor", "Strawberry">>, <<"topping", "Mango">>}

\* schema defaults of a created stock document
DefaultReorderLevel == 20

NoStock == [present |-> FALSE, key |-> <<"flavor", "Strawberry">>, quantity |-> 0,
            reorderLevel |-> 0, isActive |-> FALSE, lastRestocked |-> 0]

\* Stock.findOne({ itemType, name }): the first matching document, 0 if none
StockFindOne(key) ==
  LET m == {d \in StockIds : stock[d].present /\ stock[d].key = key}
  IN IF m = {} THEN 0 ELSE CHOOSE d \in m : \A e \in m : d <= e

\* Stock.findById(id)
StockFindById(id) == IF id \in StockIds /\ stock[id].present THEN id ELSE 0

\* Stock.create(...): the new document takes the first free slot
StockFreeId ==
  LET f == {d \in StockIds : ~stock[d].present}
  IN IF f = {} THEN 0 ELSE CHOOSE d \in f : \A e \in f : d <= e

\* stockSchema.statics.isAvailable
isAvailable(key) ==
  LET d == StockFindOne(key)
  IN d # 0 /\ stock[d].isActive /\ stock[d].quantity > 0

\* stockSchema.statics.getLowStockItems
getLowStockItems == {d \in StockIds : stock[d].present /\ stock[d].quantity < stock[d].reorderLevel}

Idle == [op |-> "none", id |-> 0, key |-> <<"flavor", "Strawberry">>, amount |-> 0, value |-> 0, time |-> 0]
NoRes == [op |-> "none", out |-> "none"]

\* a request arrives: request slots are anonymous, the lowest free one takes it
Arrive(p) == pc[p] = "idle" /\ \A q \in Procs : q < p => pc[q] # "idle"

\* the handler sends its response and ends
Finish(p, op, out) ==
  /\ pc' = [pc EXCEPT ![p] = "idle"]
  /\ loc' = [loc EXCEPT ![p] = Idle]
  /\ last' = [op |-> op, out |-> out]

\* document.save() of a loaded stock document: $set of the modified paths;
\* it fails when the document is gone or the quantity validator (min: 0) rejects
StockSaveOk(id, q) == stock[id].present /\ q >= 0

\* reduceStock's check: throw "Insufficient stock" when quantity < amount
reduceStockInsufficient(qty, amount) == qty < amount

\* reduceStock up to stock.save(): findOne, the two checks, the subtraction in memory
reduceStockRead(p) ==
  \E key \in StockKeys, a \in Amounts :
    /\ Arrive(p)
    /\ reqs' = reqs + 1
    /\ LET d == StockFindOne(key) IN
         IF d = 0
           THEN Finish(p, "reduceStock", "null")
         ELSE IF reduceStockInsufficient(stock[d].quantity, a)
           THEN Finish(p, "reduceStock", "InsufficientStock")
         ELSE /\ pc' = [pc EXCEPT ![p] = "reduceStock_save"]
              /\ loc' = [loc EXCEPT ![p] = [op |-> "reduceStock", id |-> d, key |-> key,
                                            amount |-> a, value |-> stock[d].quantity - a, time |-> now]]
              /\ UNCHANGED last
    /\ UNCHANGED <<nonStock, now, stock, initQty, decTotal, incTotal, decCnt>>

\* reduceStock: await stock.save()
reduceStockSave(p) ==
  /\ pc[p] = "reduceStock_save"
  /\ LET d == loc[p].id
         a == loc[p].amount IN
       IF StockSaveOk(d, loc[p].value)
         THEN /\ stock' = [stock EXCEPT ![d].quantity = loc[p].value]
              /\ decTotal' = [decTotal EXCEPT ![d] = @ + a]
              /\ decCnt' = [decCnt EXCEPT ![d][a] = @ + 1]
              /\ Finish(p, "reduceStock", "ok")
         ELSE /\ UNCHANGED <<stock, decTotal, decCnt>>
              /\ Finish(p, "reduceStock", "error")
  /\ UNCHANGED <<nonStock, now, initQty, incTotal, reqs>>

\* addStock up to its second await: findOne, then either create or add in memory
addStockRead(p) ==
  \E key \in StockKeys, a \in Amounts :
    /\ Arrive(p)
    /\ reqs' = reqs + 1
    /\ LET d == StockFindOne(key) IN
         IF d = 0
           THEN /\ pc' = [pc EXCEPT ![p] = "addStock_create"]
                /\ loc' = [loc EXCEPT ![p] = [op |-> "addStock", id |-> 0, key |-> key,
                                              amount |-> a, value |-> a, time |-> now]]
           ELSE /\ stock[d].quantity + a <= MaxQty
                /\ pc' = [pc EXCEPT ![p] = "addStock_save"]
                /\ loc' = [loc EXCEPT ![p] = [op |-> "addStock", id |-> d, key |-> key,
                                              amount |-> a, value |-> stock[d].quantity + a,
                                              time |-> now]]
    /\ UNCHANGED <<nonStock, now, stock, last, initQty, decTotal, incTotal, decCnt>>

\* addStock: this.create({ itemType, name, quantity: amount, lastRestocked })
addStockCreate(p) ==
  /\ pc[p] = "addStock_create"
  /\ StockFreeId # 0
  /\ LET d == StockFreeId
         a == loc[p].amount IN
       /\ stock' = [stock EXCEPT ![d] = [present |-> TRUE, key |-> loc[p].key, quantity |-> a,
                                         reorderLevel |-> DefaultReorderLevel, isActive |-> TRUE,
                                         lastRestocked |-> loc[p].time]]
       /\ incTotal' = [incTotal EXCEPT ![d] = @ + a]
       /\ Finish(p, "addStock", "created")
  /\ UNCHANGED <<nonStock, now, initQty, decTotal, decCnt, reqs>>

\* addStock: await stock.save() of quantity and lastRestocked
addStockSave(p) ==
  /\ pc[p] = "addStock_save"
  /\ LET d == loc[p].id
         a == loc[p].amount IN
       IF StockSaveOk(d, loc[p].value)
         THEN /\ stock' = [stock EXCEPT ![d].quantity = loc[p].value,
                                        ![d].lastRestocked = loc[p].time]
              /\ incTotal' = [incTotal EXCEPT ![d] = @ + a]
              /\ Finish(p, "addStock", "ok")
         ELSE /\ UNCHANGED <<stock, incTotal>>
              /\ Finish(p, "addStock", "error")
  /\ UNCHANGED <<nonStock, now, initQty, decTotal, decCnt, reqs>>

\* PUT /api/stock/:id/adjust up to stock.save(): findById, the addition in memory,
\* the negative check
adjustRead(p) ==
  \E id \in StockIds, adj \in Adjustments :
    /\ Arrive(p)
    /\ reqs' = reqs + 1
    /\ LET d == StockFindById(id) IN
         IF d = 0
           THEN Finish(p, "adjust", "404")
         ELSE IF stock[d].quantity + adj < 0
           THEN Finish(p, "adjust", "400")
         ELSE /\ stock[d].quantity + adj <= MaxQty
              /\ pc' = [pc EXCEPT ![p] = "adjust_save"]
              /\ loc' = [loc EXCEPT ![p] = [op |-> "adjust", id |-> d, key |-> stock[d].key,
                                            amount |-> adj, value |-> stock[d].quantity + adj,
                                            time |-> now]]
              /\ UNCHANGED last
    /\ UNCHANGED <<nonStock, now, stock, initQty, decTotal, incTotal, decCnt>>

\* PUT /api/stock/:id/adjust: await stock.save(); quantity is written when the
\* adjustment changed it, lastRestocked when the adjustment is positive
adjustSave(p) ==
  /\ pc[p] = "adjust_save"
  /\ LET d == loc[p].id
         adj == loc[p].amount IN
       IF StockSaveOk(d, loc[p].value)
         THEN /\ stock' = [stock EXCEPT
                             ![d].quantity = IF adj # 0 THEN loc[p].value ELSE @,
                             ![d].lastRestocked = IF adj > 0 THEN loc[p].time ELSE @]
              /\ incTotal' = [incTotal EXCEPT ![d] = IF adj > 0 THEN @ + adj ELSE @]
              /\ decTotal' = [decTotal EXCEPT ![d] = IF adj < 0 THEN @ - adj ELSE @]
              /\ Finish(p, "adjust", "ok")
         ELSE /\ UNCHANGED <<stock, incTotal, decTotal>>
              /\ Finish(p, "adjust", "error")
  /\ UNCHANGED <<nonStock, now, initQty, decCnt, reqs>>

\* PUT /api/stock/:id/restock up to stock.save(): findById, add reorderLevel in memory
restockRead(p) ==
  \E id \in StockIds :
    /\ Arrive(p)
    /\ reqs' = reqs + 1
    /\ LET d == StockFindById(id) IN
         IF d = 0
           THEN Finish(p, "restock", "404")
           ELSE /\ stock[d].quantity + stock[d].reorderLevel <= MaxQty
                /\ pc' = [pc EXCEPT ![p] = "restock_save"]
                /\ loc' = [loc EXCEPT ![p] = [op |-> "restock", id |-> d, key |-> stock[d].key,
                                              amount |-> stock[d].reorderLevel,
                                              value |-> stock[d].quantity + stock[d].reorderLevel,
                                              time |-> now]]
                /\ UNCHANGED last
    /\ UNCHANGED <<nonStock, now, stock, initQty, decTotal, incTotal, decCnt>>

\* PUT /api/stock/:id/restock: await stock.save()
restockSave(p) ==
  /\ pc[p] = "restock_save"
  /\ LET d == loc[p].id
         a == loc[p].amount IN
       IF StockSaveOk(d, loc[p].value)
         THEN /\ stock' = [stock EXCEPT
                             ![d].quantity = IF a # 0 THEN loc[p].value ELSE @,
                             ![d].lastRestocked = loc[p].time]
              /\ incTotal' = [incTotal EXCEPT ![d] = @ + a]
              /\ Finish(p, "restock", "ok")
         ELSE /\ UNCHANGED <<stock, incTotal>>
              /\ Finish(p, "restock", "error")
  /\ UNCHANGED <<nonStock, now, initQty, decTotal, decCnt, reqs>>

\* POST /api/stock/initialize: the first flavor and the first topping of its
\* defaultStock list
defaultStock ==
  <<[key |-> <<"flavor", "Strawberry">>, quantity |-> 50, reorderLevel |-> 20],
    [key |-> <<"topping", "Apple">>, quantity |-> 50, reorderLevel |-> 20]>>

\* POST /api/stock/initialize: the condition of the restock branch
initializeRestocks(doc) == doc.quantity <= doc.reorderLevel

\* POST /api/stock/initialize: the loop moves on to the findOne of the next item,
\* or answers with the counters after the last one
initializeAdvance(p, i, cnt) ==
  IF i < Len(defaultStock)
    THEN /\ pc' = [pc EXCEPT ![p] = "initialize_find"]
         /\ loc' = [loc EXCEPT ![p] = [op |-> "initialize", idx |-> i + 1, id |-> 0,
                                       amount |-> 0, value |-> 0, time |-> now, cnt |-> cnt]]
         /\ UNCHANGED last
    ELSE /\ pc' = [pc EXCEPT ![p] = "idle"]
         /\ loc' = [loc EXCEPT ![p] = Idle]
         /\ last' = [op |-> "initialize", out |-> "ok", created |-> cnt.created,
                     restocked |-> cnt.restocked, totalAdded |-> cnt.totalAdded]

\* POST /api/stock/initialize: Stock.findOne for item i, then the branch taken up
\* to the next await
initializeLookup(p, i, cnt) ==
  LET d == StockFindOne(defaultStock[i].key) IN
    IF d = 0
      THEN /\ pc' = [pc EXCEPT ![p] = "initialize_create"]
           /\ loc' = [loc EXCEPT ![p] = [op |-> "initialize", idx |-> i, id |-> 0,
                                         amount |-> 0, value |-> 0, time |-> now, cnt |-> cnt]]
           /\ UNCHANGED last
    ELSE IF initializeRestocks(stock[d])
      THEN /\ pc' = [pc EXCEPT ![p] = "initialize_save"]
           /\ loc' = [loc EXCEPT ![p] = [op |-> "initialize", idx |-> i, id |-> d,
                                         amount |-> stock[d].reorderLevel,
                                         value |-> stock[d].quantity + stock[d].reorderLevel,
                                         time |-> now, cnt |-> cnt]]
           /\ UNCHANGED last
    ELSE initializeAdvance(p, i, cnt)

\* POST /api/stock/initialize arrives: the findOne of the first item
initializeStart(p) ==
  /\ Arrive(p)
  /\ reqs' = reqs + 1
  /\ initializeLookup(p, 1, [created |-> 0, restocked |-> 0, totalAdded |-> 0])
  /\ UNCHANGED <<nonStock, now, stock, initQty, decTotal, incTotal, decCnt>>

\* POST /api/stock/initialize: the findOne of a later item
initializeFind(p) ==
  /\ pc[p] = "initialize_find"
  /\ initializeLookup(p, loc[p].idx, loc[p].cnt)
  /\ UNCHANGED <<nonStock, now, reqs, stock, initQty, decTotal, incTotal, decCnt>>

\* POST /api/stock/initialize: await Stock.create(item), created++
initializeCreate(p) ==
  /\ pc[p] = "initialize_create"
  /\ StockFreeId # 0
  /\ LET d == StockFreeId
         item == defaultStock[loc[p].idx] IN
       /\ stock' = [stock EXCEPT ![d] = [present |-> TRUE, key |-> item.key,
                                         quantity |-> item.quantity,
                                         reorderLevel |-> item.reorderLevel, isActive |-> TRUE,
                                         lastRestocked |-> now]]
       /\ incTotal' = [incTotal EXCEPT ![d] = @ + item.quantity]
       /\ initializeAdvance(p, loc[p].idx, [loc[p].cnt EXCEPT !.created = @ + 1])
  /\ UNCHANGED <<nonStock, now, reqs, initQty, decTotal, decCnt>>

\* POST /api/stock/initialize: await existing.save() of the restock branch,
\* restocked++, totalAdded += amountToAdd
initializeSave(p) ==
  /\ pc[p] = "initialize_save"
  /\ LET d == loc[p].id
         a == loc[p].amount IN
       IF StockSaveOk(d, loc[p].value)
         THEN /\ stock' = [stock EXCEPT
                             ![d].quantity = IF a # 0 THEN loc[p].value ELSE @,
                             ![d].lastRestocked = loc[p].time]
              /\ incTotal' = [incTotal EXCEPT ![d] = @ + a]
              /\ initializeAdvance(p, loc[p].idx,
                                   [loc[p].cnt EXCEPT !.restocked = @ + 1,
                                                      !.totalAdded = @ + a])
         ELSE /\ UNCHANGED <<stock, incTotal>>
              /\ Finish(p, "initialize", "error")
  /\ UNCHANGED <<nonStock, now, reqs, initQty, decTotal, decCnt>>

\* GET /api/stock/low
listLow(p) ==
  /\ Arrive(p)
  /\ reqs' = reqs + 1
  /\ last' = [op |-> "low", out |-> "ok", lowStock |-> getLowStockItems]
  /\ UNCHANGED <<nonStock, now, pc, loc, stockVars>>

\* the clock advances
Tick ==
  /\ now < MaxTime
  /\ now' = now + 1
  /\ UNCHANGED <<reqs, pc, loc, last, stockVars, nonStock>>

(* ----------------------------- MenuCode -------------------------------- *)
\* a code is a string of 5 characters, modelled as the sequence of its characters
LowerAlpha == <<"a", "b", "c", "d", "e", "f", "g", "h", "i", "j", "k", "l", "m",
                "n", "o", "p", "q", "r", "s", "t", "u", "v", "w", "x", "y", "z">>
UpperAlpha == <<"A", "B", "C", "D", "E", "F", "G", "H", "I", "J", "K", "L", "M",
                "N", "O", "P", "Q", "R", "S", "T", "U", "V", "W", "X", "Y", "Z">>

\* String.prototype.toUpperCase
toUpperCase(str) ==
  [i \in DOMAIN str |->
     IF \E k \in DOMAIN LowerAlpha : LowerAlpha[k] = str[i]
       THEN UpperAlpha[CHOOSE k \in DOMAIN LowerAlpha : LowerAlpha[k] = str[i]]
       ELSE str[i]]

\* the codes generateCode draws in this model
GenCodes == {<<"A", "B", "C", "D", "E">>, <<"T", "E", "S", "T", "1">>}
\* the codes clients submit
InputCodes == {<<"a", "b", "c", "d", "e">>, <<"T", "E", "S", "T", "1">>,
               <<"Z", "Z", "Z", "Z", "9">>}
Users == {"u1"}
NoLoyalty == [stamps |-> 0, totalFreeDrinks |-> 0, loyaltyPoints |-> 0, orderHistory |-> <<>>]
CupSizes == {"S", "M", "L"}

\* schema defaults of a menu code: maxUsage, and the time to live (24 hours)
DefaultMaxUsage == 5
CodeTTL == 1
\* generateCode: maxAttempts
maxAttempts == 100

NoCode == [present |-> FALSE, cupSize |-> "S", usageCount |-> 0, maxUsage |-> 0,
           usedBy |-> <<>>, expiresAt |-> 0]

\* MenuCode.findOne({ code }): the stored code, or <<>> when there is none
CodeFindOne(code) == IF code \in GenCodes /\ codes[code].present THEN code ELSE <<>>

\* the expiry test of validateAndUse, canBeUsed and POST /create
codeExpired(doc, t) == doc.expiresAt < t

\* the limit test with > in place of >=, which lets one redemption too many through
usageLimitReached_Strict(usageCount, maxUsage) == usageCount > maxUsage

\* the usage-limit test of validateAndUse and canBeUsed
usageLimitReached(usageCount, maxUsage) == usageCount >= maxUsage

\* a canBeUsed that tests the usage limit before the expiry
canBeUsed_LimitFirst(doc, t) ==
  IF usageLimitReached(doc.usageCount, doc.maxUsage)
    THEN [valid |-> FALSE, reason |-> "UsageLimitReached", remainingUses |-> 0]
  ELSE IF codeExpired(doc, t)
    THEN [valid |-> FALSE, reason |-> "CodeExpired", remainingUses |-> 0]
  ELSE [valid |-> TRUE, reason |-> "none", remainingUses |-> doc.maxUsage - doc.usageCount]

\* menuCodeSchema.methods.canBeUsed
canBeUsed(doc, t) ==
  IF codeExpired(doc, t) THEN [valid |-> FALSE, reason |-> "CodeExpired", remainingUses |-> 0]
  ELSE IF usageLimitReached(doc.usageCount, doc.maxUsage)
    THEN [valid |-> FALSE, reason |-> "UsageLimitReached", remainingUses |-> 0]
  ELSE [valid |-> TRUE, reason |-> "none", remainingUses |-> doc.maxUsage - doc.usageCount]

\* generateCode: one pass of the loop (draw a code, findOne); on a free code go on
\* to createCode's save, after maxAttempts collisions throw
GenerateAttempt(p, attempts, cupSize) ==
  \E code \in GenCodes :
    IF CodeFindOne(code) = <<>>
      THEN /\ pc' = [pc EXCEPT ![p] = "createCode_save"]
           /\ loc' = [loc EXCEPT ![p] = [op |-> "createCode", code |-> code, cupSize |-> cupSize,
                                         attempts |-> attempts, time |-> now]]
           /\ UNCHANGED last
    ELSE IF attempts + 1 < maxAttempts
      THEN /\ pc' = [pc EXCEPT ![p] = "generateCode"]
           /\ loc' = [loc EXCEPT ![p] = [op |-> "createCode", code |-> code, cupSize |-> cupSize,
                                         attempts |-> attempts + 1, time |-> now]]
           /\ UNCHANGED last
    ELSE Finish(p, "createCode", "CodeSpaceExhausted")

\* POST /api/menu-codes/generate: createCode -> generateCode, first pass of the loop
createCodeStart(p, cupSize) ==
  /\ Arrive(p)
  /\ reqs' = reqs + 1
  /\ GenerateAttempt(p, 0, cupSize)
  /\ UNCHANGED <<now, stockVars, nonStock>>

\* generateCode: a further pass of the loop after a collision
generateCodeRetry(p) ==
  /\ pc[p] = "generateCode"
  /\ GenerateAttempt(p, loc[p].attempts, loc[p].cupSize)
  /\ UNCHANGED <<now, reqs, stockVars, nonStock>>

\* a save with no unique index on code: a second document is stored under the code
createCodeSave_NoUniqueIndex(p) ==
  /\ pc[p] = "createCode_save"
  /\ codes' = [codes EXCEPT ![loc[p].code] =
                 [present |-> TRUE, cupSize |-> loc[p].cupSize, usageCount |-> 0,
                  maxUsage |-> DefaultMaxUsage, usedBy |-> <<>>,
                  expiresAt |-> loc[p].time + CodeTTL]]
  /\ Finish(p, "createCode", "created")
  /\ UNCHANGED <<now, stockVars, orders, users, redeemOk, reqs>>

\* createCode: menuCode.save(); the unique index on code rejects a duplicate
createCodeSave(p) ==
  /\ pc[p] = "createCode_save"
  /\ LET code == loc[p].code IN
       IF codes[code].present
         THEN /\ UNCHANGED codes
              /\ Finish(p, "createCode", "error")
         ELSE /\ codes' = [codes EXCEPT ![code] =
                             [present |-> TRUE, cupSize |-> loc[p].cupSize, usageCount |-> 0,
                              maxUsage |-> DefaultMaxUsage, usedBy |-> <<>>,
                              expiresAt |-> loc[p].time + CodeTTL]]
              /\ Finish(p, "createCode", "created")
  /\ UNCHANGED <<now, stockVars, orders, users, redeemOk, reqs>>

\* POST /api/menu-codes/validate
validateCode(p, input) ==
    /\ Arrive(p)
    /\ reqs' = reqs + 1
    /\ LET code == CodeFindOne(toUpperCase(input)) IN
         IF code = <<>>
           THEN last' = [op |-> "validate", out |-> "InvalidCode", input |-> input]
         ELSE LET usageCheck == canBeUsed(codes[code], now) IN
           IF ~usageCheck.valid
             THEN last' = [op |-> "validate", out |-> usageCheck.reason, input |-> input]
             ELSE last' = [op |-> "validate", out |-> "valid", input |-> input,
                           cupSize |-> codes[code].cupSize,
                           remainingUses |-> usageCheck.remainingUses,
                           maxUsage |-> codes[code].maxUsage]
    /\ UNCHANGED <<now, pc, loc, stockVars, nonStock>>

\* validateAndUse up to menuCode.save(): findOne, the three checks, the increment
\* and the push in memory
validateAndUseRead(p, input, orderId) ==
    /\ Arrive(p)
    /\ reqs' = reqs + 1
    /\ LET code == CodeFindOne(toUpperCase(input)) IN
         IF code = <<>>
           THEN Finish(p, "validateAndUse", "InvalidCode")
         ELSE IF codeExpired(codes[code], now)
           THEN Finish(p, "validateAndUse", "CodeExpired")
         ELSE IF usageLimitReached(codes[code].usageCount, codes[code].maxUsage)
           THEN Finish(p, "validateAndUse", "UsageLimitReached")
         ELSE /\ pc' = [pc EXCEPT ![p] = "validateAndUse_save"]
              /\ loc' = [loc EXCEPT ![p] = [op |-> "validateAndUse", code |-> code,
                                            value |-> codes[code].usageCount + 1,
                                            order |-> orderId]]
              /\ UNCHANGED last
    /\ UNCHANGED <<now, stockVars, codes, orders, users, redeemOk>>

\* validateAndUse: await menuCode.save(): $set usageCount, $push usedBy
validateAndUseSave(p) ==
  /\ pc[p] = "validateAndUse_save"
  /\ LET code == loc[p].code IN
       IF codes[code].present
         THEN /\ codes' = [codes EXCEPT ![code].usageCount = loc[p].value,
                                        ![code].usedBy = Append(@, loc[p].order)]
              /\ redeemOk' = [redeemOk EXCEPT ![code] = @ + 1]
              /\ Finish(p, "validateAndUse", "ok")
         ELSE /\ UNCHANGED <<codes, redeemOk>>
              /\ Finish(p, "validateAndUse", "error")
  /\ UNCHANGED <<now, stockVars, orders, users, reqs>>

\* a filter that also matches a code in the instant it expires
cleanupMatches_AtExpiry(t) ==
  {c \in GenCodes : codes[c].present /\ codes[c].usageCount = 0 /\ codes[c].expiresAt <= t}

\* the documents cleanupExpired's filter matches
cleanupMatches(t) ==
  {c \in GenCodes : codes[c].present /\ codes[c].usageCount = 0 /\ codes[c].expiresAt < t}

\* DELETE /api/menu-codes/admin/cleanup: cleanupExpired is one deleteMany
cleanupExpired(p) ==
  /\ Arrive(p)
  /\ codes' = [c \in GenCodes |-> IF c \in cleanupMatches(now) THEN NoCode ELSE codes[c]]
  /\ last' = [op |-> "cleanup", out |-> "ok", deletedCount |-> Cardinality(cleanupMatches(now))]
  /\ reqs' = reqs + 1
  /\ UNCHANGED <<now, pc, loc, stockVars, orders, users, redeemOk>>

(* ------------------------------- User ---------------------------------- *)
\* stamps that earn a free drink
LoyaltyThreshold == 10

\* user.addLoyaltyStamp(): one more stamp; at the threshold the card is reset, a
\* free drink is counted and the caller is told so
addLoyaltyStamp(u) ==
  IF u.stamps + 1 >= LoyaltyThreshold
    THEN [user |-> [u EXCEPT !.stamps = 0, !.totalFreeDrinks = @ + 1], earned |-> TRUE]
    ELSE [user |-> [u EXCEPT !.stamps = @ + 1], earned |-> FALSE]

(* ------------------------------- Order --------------------------------- *)
FlavorEnum == {"Strawberry", "Thai Tea", "Matcha", "Milk", "Green Tea"}
ToppingEnum == {"Apple", "Cherry", "Blueberry", "Raspberry", "Strawberry", "Banana", "Mango"}
\* what clients submit
FlavorInputs == {"Strawberry", "Durian"}
ToppingInputs == {<<>>, <<"Mango">>}
\* the topping lists of the pricing runs: none up to three as the menu page sends
\* them, and four as another client can send them
PricedToppingInputs ==
  {<<>>, <<"Mango">>, <<"Mango", "Apple">>, <<"Mango", "Apple", "Cherry">>,
   <<"Mango", "Apple", "Cherry", "Banana">>}
\* the customer codes Math.random() yields in this model
TrackingCodes == {<<"#", "A", "1", "B", "2", "C">>, <<"#", "Z", "9">>}

BasePrice == 60
ToppingPrice == 10
sizePrices == [S |-> 0, M |-> 10, L |-> 20]
\* a timestamp that was never set
NoDate == -1
\* orderSchema.status enum
Statuses == {"Pending", "Preparing", "Ready", "Completed", "Cancelled"}
\* what an admin submits as the new status
StatusInputs == Statuses \cup {"Refunded"}
\* the timestamp updateStatus stamps for a status
statusTimestamps == [Preparing |-> "prepared", Ready |-> "ready", Completed |-> "completed"]

\* a calculateTotal that forgets the size surcharge
calculateTotal_NoSize(o) ==
  LET base == IF o.pricing.basePrice # 0 THEN o.pricing.basePrice ELSE BasePrice
      toppingsPrice == Len(o.toppings) * ToppingPrice
  IN [o EXCEPT !.pricing = [basePrice |-> o.pricing.basePrice, sizePrice |-> 0,
                            toppingsPrice |-> toppingsPrice,
                            total |-> IF o.isFreeDrink THEN 0 ELSE base + toppingsPrice]]

\* a calculateTotal that does not override the total of a free drink
calculateTotal_NoFree(o) ==
  LET base == IF o.pricing.basePrice # 0 THEN o.pricing.basePrice ELSE BasePrice
      sizePrice == IF o.cupSize \in DOMAIN sizePrices THEN sizePrices[o.cupSize] ELSE 0
      toppingsPrice == Len(o.toppings) * ToppingPrice
  IN [o EXCEPT !.pricing = [basePrice |-> o.pricing.basePrice, sizePrice |-> sizePrice,
                            toppingsPrice |-> toppingsPrice,
                            total |-> base + sizePrice + toppingsPrice]]

\* orderSchema.methods.calculateTotal
calculateTotal(o) ==
  LET base == IF o.pricing.basePrice # 0 THEN o.pricing.basePrice ELSE BasePrice
      sizePrice == IF o.cupSize \in DOMAIN sizePrices THEN sizePrices[o.cupSize] ELSE 0
      toppingsPrice == Len(o.toppings) * ToppingPrice
      total == base + sizePrice + toppingsPrice
  IN [o EXCEPT !.pricing = [basePrice |-> o.pricing.basePrice, sizePrice |-> sizePrice,
                            toppingsPrice |-> toppingsPrice,
                            total |-> IF o.isFreeDrink THEN 0 ELSE total]]

\* the schema validation order.save() runs: the enums of flavor, toppings, cupSize
OrderValid(o) ==
  /\ o.flavor \in FlavorEnum
  /\ \A i \in DOMAIN o.toppings : o.toppings[i] \in ToppingEnum
  /\ o.cupSize \in CupSizes

\* order.save() rejects an invalid document, and the unique index on customerCode
\* rejects a duplicate
orderSaveFails(o) ==
  \/ ~OrderValid(o)
  \/ \E x \in orders : x.customerCode = o.customerCode

\* a save that stores the document even though it reports the failure
OrdersAfterSave_Stored(o) == orders \cup {o}

\* the Order collection after order.save()
OrdersAfterSave(o) == IF orderSaveFails(o) THEN orders ELSE orders \cup {o}

\* MenuCode.expireCode(menuCode) after the save: the MenuCode model defines no
\* expireCode, the call throws a TypeError, the handler catches and logs it:
\* the codes after the call and whether it threw
expireCode(code) == [codes |-> codes, threw |-> TRUE]

\* POST /api/orders/create up to its second await: the request validation, the
\* code lookup and expiry check, the customer code, new Order, calculateTotal
createOrderStart(p, input, flavor, toppings, user, customerCode) ==
  /\ Arrive(p)
  /\ reqs' = reqs + 1
  /\ LET code == CodeFindOne(toUpperCase(input))
         order == calculateTotal(
                    [id |-> reqs + 1, customerId |-> user, menuCode |-> toUpperCase(input),
                     customerCode |-> customerCode,
                     cupSize |-> IF code = <<>> THEN "none" ELSE codes[code].cupSize,
                     flavor |-> flavor, toppings |-> toppings,
                     pricing |-> [basePrice |-> BasePrice, sizePrice |-> 0,
                                  toppingsPrice |-> 0, total |-> 0],
                     status |-> "Pending", paymentStatus |-> "Paid", isFreeDrink |-> FALSE,
                     timestamps |-> [ordered |-> now, prepared |-> NoDate,
                                     ready |-> NoDate, completed |-> NoDate]]) IN
       IF Len(input) # 5
         THEN Finish(p, "createOrder", "ValidationFailed")
       ELSE IF code = <<>>
         THEN Finish(p, "createOrder", "InvalidMenuCode")
       ELSE IF codeExpired(codes[code], now)
         THEN Finish(p, "createOrder", "CodeExpired")
       ELSE /\ pc' = [pc EXCEPT ![p] = IF user = "none" THEN "createOrder_save"
                                                         ELSE "createOrder_findUser"]
            /\ loc' = [loc EXCEPT ![p] = [op |-> "createOrder", order |-> order,
                                          earnedFreeDrink |-> FALSE, user |-> NoLoyalty]]
            /\ UNCHANGED last
  /\ UNCHANGED <<now, stockVars, codes, orders, users, redeemOk>>

\* the user block without the free-drink branch: the stamp is counted, the order
\* is neither marked free nor re-priced
createOrderFindUser_NoReprice(p) ==
  /\ pc[p] = "createOrder_findUser"
  /\ LET u == users[loc[p].order.customerId]
         stamped == addLoyaltyStamp(u)
         order == loc[p].order
         user == [stamped.user EXCEPT !.orderHistory = Append(@, order.id),
                                      !.loyaltyPoints = @ + (order.pricing.total \div 10)] IN
       /\ pc' = [pc EXCEPT ![p] = "createOrder_userSave"]
       /\ loc' = [loc EXCEPT ![p] = [op |-> "createOrder", order |-> order,
                                     earnedFreeDrink |-> stamped.earned, user |-> user]]
  /\ UNCHANGED <<now, reqs, last, stockVars, nonStock>>

\* POST /api/orders/create: User.findById, then addLoyaltyStamp, the free drink
\* re-pricing, the order history and the loyalty points in memory
createOrderFindUser(p) ==
  /\ pc[p] = "createOrder_findUser"
  /\ LET u == users[loc[p].order.customerId]
         stamped == addLoyaltyStamp(u)
         order == IF stamped.earned
                    THEN calculateTotal([loc[p].order EXCEPT !.isFreeDrink = TRUE])
                    ELSE loc[p].order
         user == [stamped.user EXCEPT !.orderHistory = Append(@, order.id),
                                      !.loyaltyPoints = @ + (order.pricing.total \div 10)] IN
       /\ pc' = [pc EXCEPT ![p] = "createOrder_userSave"]
       /\ loc' = [loc EXCEPT ![p] = [op |-> "createOrder", order |-> order,
                                     earnedFreeDrink |-> stamped.earned, user |-> user]]
  /\ UNCHANGED <<now, reqs, last, stockVars, nonStock>>

\* POST /api/orders/create: await user.save(): $set of the loyalty card and the
\* points, $push of the order id
createOrderUserSave(p) ==
  /\ pc[p] = "createOrder_userSave"
  /\ LET uid == loc[p].order.customerId IN
       users' = [users EXCEPT ![uid] =
                   [stamps |-> loc[p].user.stamps,
                    totalFreeDrinks |-> loc[p].user.totalFreeDrinks,
                    loyaltyPoints |-> loc[p].user.loyaltyPoints,
                    orderHistory |-> Append(@.orderHistory, loc[p].order.id)]]
  /\ pc' = [pc EXCEPT ![p] = "createOrder_save"]
  /\ UNCHANGED <<now, loc, last, stockVars, codes, orders, redeemOk, reqs>>

\* POST /api/orders/create: await order.save(), then expireCode and the response
createOrderSave(p) ==
  /\ pc[p] = "createOrder_save"
  /\ LET order == loc[p].order IN
       /\ orders' = OrdersAfterSave(order)
       /\ IF orderSaveFails(order)
            THEN /\ UNCHANGED codes
                 /\ Finish(p, "createOrder", "SaveFailed")
            ELSE /\ codes' = expireCode(order.menuCode).codes
                 /\ pc' = [pc EXCEPT ![p] = "idle"]
                 /\ loc' = [loc EXCEPT ![p] = Idle]
                 /\ last' = [op |-> "createOrder", out |-> "created", order |-> order,
                             earnedFreeDrink |-> loc[p].earnedFreeDrink,
                             codeError |-> expireCode(order.menuCode).threw]
  /\ UNCHANGED <<now, stockVars, users, redeemOk, reqs>>

\* Order.findById(orderId): the set holding the stored order, or {} when there is none
OrderFindById(id) == {o \in orders : o.id = id}

\* orderSchema.methods.updateStatus up to its save: the status and its timestamp
updateStatus(o, newStatus, t) ==
  LET withStatus == [o EXCEPT !.status = newStatus] IN
    IF newStatus \in DOMAIN statusTimestamps
      THEN [withStatus EXCEPT !.timestamps[statusTimestamps[newStatus]] = t]
      ELSE withStatus

\* PUT /api/orders/admin/:orderId/status: Order.findById, then updateStatus in memory
updateStatusRead(p, id, status) ==
  /\ Arrive(p)
  /\ reqs' = reqs + 1
  /\ IF OrderFindById(id) = {}
       THEN Finish(p, "updateStatus", "404")
       ELSE /\ pc' = [pc EXCEPT ![p] = "updateStatus_save"]
            /\ loc' = [loc EXCEPT ![p] =
                         [op |-> "updateStatus", id |-> id, status |-> status,
                          order |-> updateStatus(CHOOSE o \in OrderFindById(id) : TRUE,
                                                 status, now)]]
            /\ UNCHANGED last
  /\ UNCHANGED <<now, stockVars, nonStock>>

\* PUT /api/orders/admin/:orderId/status: this.save() of updateStatus ($set of the
\* status and the stamped timestamp; the enum of status is validated), the response
updateStatusSave(p) ==
  /\ pc[p] = "updateStatus_save"
  /\ LET new == loc[p].order
         st == statusTimestamps IN
       IF new.status \notin Statuses
         THEN /\ UNCHANGED orders
              /\ Finish(p, "updateStatus", "error")
         ELSE /\ orders' = {IF o.id # new.id THEN o
                            ELSE IF new.status \in DOMAIN st
                              THEN [o EXCEPT !.status = new.status,
                                             !.timestamps[st[new.status]] =
                                                new.timestamps[st[new.status]]]
                              ELSE [o EXCEPT !.status = new.status] : o \in orders}
              /\ Finish(p, "updateStatus", "ok")
  /\ UNCHANGED <<now, reqs, stockVars, codes, users, redeemOk>>

\* what clients submit to the tracking lookup: stored codes as they are, in lower
\* case, without the "#", a pattern character in the middle, and an unknown code
TrackInputs ==
  {<<"#", "A", "1", "B", "2", "C">>, <<"a", "1", "b", "2", "c">>, <<"#", "z", "9">>,
   <<"a", ".", "b", "2", "c">>, <<"Q", "1">>}

\* one character of a pattern against one character of a string under flag i: the
\* pattern character "." matches any character
CharMatches(pat, ch) == pat = "." \/ toUpperCase(<<pat>>) = toUpperCase(<<ch>>)

\* the whole of str against the characters of pattern
WholeMatches(pattern, str) ==
  /\ Len(pattern) = Len(str)
  /\ \A i \in DOMAIN pattern : CharMatches(pattern[i], str[i])

\* new RegExp(`^#?${code}$`, 'i').test(str)
RegExpTest(code, str) ==
  \/ WholeMatches(code, str)
  \/ Len(str) > 0 /\ str[1] = "#" /\ WholeMatches(code, Tail(str))

\* GET /api/orders/track/:customerCode
trackOrder(p, input) ==
  /\ Arrive(p)
  /\ reqs' = reqs + 1
  /\ LET upper == toUpperCase(input)
         code == IF Len(upper) > 0 /\ upper[1] = "#" THEN Tail(upper) ELSE upper
         found == {o \in orders : RegExpTest(code, o.customerCode)} IN
       IF found = {}
         THEN last' = [op |-> "track", out |-> "OrderNotFound", input |-> input]
         ELSE \E o \in found :
                last' = [op |-> "track", out |-> "found", input |-> input, order |-> o]
  /\ UNCHANGED <<now, pc, loc, stockVars, nonStock>>

(* ----------------------- the stock ledger alone ------------------------ *)
StockDocInit(key, q, r, act) ==
  [present |-> TRUE, key |-> key, quantity |-> q, reorderLevel |-> r, isActive |-> act,
   lastRestocked |-> 0]

InitProcs ==
  /\ pc = [p \in Procs |-> "idle"]
  /\ loc = [p \in Procs |-> Idle]
  /\ last = NoRes

\* the stock history starts empty
InitStockHistory ==
  /\ initQty = [d \in StockIds |-> stock[d].quantity]
  /\ decTotal = [d \in StockIds |-> 0]
  /\ incTotal = [d \in StockIds |-> 0]
  /\ decCnt = [d \in StockIds |-> [a \in Amounts |-> 0]]

\* a menu code as createCode stored it at time 0 and k sequential redemptions left it
CodeDocInit(cupSize, k) ==
  [present |-> TRUE, cupSize |-> cupSize, usageCount |-> k, maxUsage |-> DefaultMaxUsage,
   usedBy |-> [i \in 1..k |-> 0], expiresAt |-> CodeTTL]

InitNoOrders ==
  /\ orders = {}
  /\ users = [u \in Users |-> NoLoyalty]
  /\ reqs = 0

InitStock ==
  /\ now = 0
  /\ \E q1 \in 0..InitQtyMax, q2 \in 0..InitQtyMax, r \in 1..MaxReorder, has2 \in BOOLEAN :
       stock = [d \in StockIds |->
                  IF d = 1 THEN StockDocInit(<<"flavor", "Strawberry">>, q1, r, TRUE)
                  ELSE IF d = 2 /\ has2 THEN StockDocInit(<<"topping", "Mango">>, q2, r, TRUE)
                  ELSE NoStock]
  /\ InitStockHistory
  /\ InitProcs
  /\ codes = [c \in GenCodes |-> NoCode]
  /\ redeemOk = [c \in GenCodes |-> 0]
  /\ InitNoOrders

NextStock ==
  \/ \E p \in Procs : reqs < MaxStockOps /\ reduceStockRead(p)
  \/ \E p \in Procs : reduceStockSave(p)
  \/ \E p \in Procs : reqs < MaxStockOps /\ addStockRead(p)
  \/ \E p \in Procs : addStockCreate(p)
  \/ \E p \in Procs : addStockSave(p)
  \/ \E p \in Procs : reqs < MaxStockOps /\ adjustRead(p)
  \/ \E p \in Procs : adjustSave(p)
  \/ \E p \in Procs : reqs < MaxStockOps /\ restockRead(p)
  \/ \E p \in Procs : restockSave(p)

SpecStock == InitStock /\ [][NextStock]_vars

\* the stock initialisation: the first default item is stored with a quantity just
\* below, at or just above its reorderLevel, the second one likewise or not at all
InitInitialize ==
  /\ now = 0
  /\ \E q1 \in (DefaultReorderLevel - 1)..(DefaultReorderLevel + 1),
        q2 \in (DefaultReorderLevel - 1)..(DefaultReorderLevel + 1), has2 \in BOOLEAN :
       stock = [d \in StockIds |->
                  IF d = 1 THEN StockDocInit(defaultStock[1].key, q1, DefaultReorderLevel, TRUE)
                  ELSE IF d = 2 /\ has2
                    THEN StockDocInit(defaultStock[2].key, q2, DefaultReorderLevel, TRUE)
                  ELSE NoStock]
  /\ InitStockHistory
  /\ InitProcs
  /\ codes = [c \in GenCodes |-> NoCode]
  /\ redeemOk = [c \in GenCodes |-> 0]
  /\ InitNoOrders

NextInitialize ==
  \/ \E p \in Procs : reqs < MaxInitOps /\ initializeStart(p)
  \/ \E p \in Procs : initializeFind(p)
  \/ \E p \in Procs : initializeCreate(p)
  \/ \E p \in Procs : initializeSave(p)
  \/ \E p \in Procs : reqs < MaxInitOps /\ listLow(p)
  \/ Tick

SpecInitialize == InitInitialize /\ [][NextInitialize]_vars

(* ------------------- menu codes and order creation --------------------- *)
\* the shop's stock is in place, the collection of menu codes holds ABCDE or is empty;
\* the orders are placed by guests (no token), so the handler skips the user block
InitCode ==
  /\ now = 0
  /\ stock = [d \in StockIds |->
               IF d = 1 THEN StockDocInit(<<"flavor", "Strawberry">>, 1, 1, TRUE)
               ELSE IF d = 2 THEN StockDocInit(<<"topping", "Mango">>, 1, 1, TRUE)
               ELSE NoStock]
  /\ InitStockHistory
  /\ InitProcs
  /\ \E k \in (DefaultMaxUsage - 1)..DefaultMaxUsage, has \in BOOLEAN :
       /\ codes = [c \in GenCodes |->
                    IF has /\ c = <<"A", "B", "C", "D", "E">> THEN CodeDocInit("M", k) ELSE NoCode]
       /\ redeemOk = [c \in GenCodes |-> codes[c].usageCount]
  /\ InitNoOrders

NextCode ==
  \/ \E p \in Procs, cupSize \in CupSizes : reqs < MaxCodeOps /\ createCodeStart(p, cupSize)
  \/ \E p \in Procs : pc[p] = "generateCode" /\ loc[p].attempts <= MaxCollisions
                        /\ generateCodeRetry(p)
  \/ \E p \in Procs : createCodeSave(p)
  \/ \E p \in Procs, input \in InputCodes : reqs < MaxCodeOps /\ validateCode(p, input)
  \/ \E p \in Procs, input \in InputCodes :
       reqs < MaxCodeOps /\ validateAndUseRead(p, input, 0)
  \/ \E p \in Procs : validateAndUseSave(p)
  \/ \E p \in Procs : reqs < MaxCodeOps /\ cleanupExpired(p)
  \/ \E p \in Procs, input \in InputCodes, customerCode \in TrackingCodes :
       reqs < MaxCodeOps /\ createOrderStart(p, input, "Strawberry", <<>>, "none", customerCode)
  \/ \E p \in Procs : createOrderSave(p)
  \/ Tick

SpecCode == InitCode /\ [][NextCode]_vars

(* ------------------------- redemptions alone --------------------------- *)
InitRedeem ==
  /\ now = 0
  /\ stock = [d \in StockIds |-> NoStock]
  /\ InitStockHistory
  /\ InitProcs
  /\ codes = [c \in GenCodes |->
               IF c = <<"A", "B", "C", "D", "E">> THEN CodeDocInit("M", 0) ELSE NoCode]
  /\ redeemOk = [c \in GenCodes |-> 0]
  /\ InitNoOrders

NextRedeem ==
  \/ \E p \in Procs, input \in InputCodes :
       reqs < MaxRedeems /\ validateAndUseRead(p, input, 0)
  \/ \E p \in Procs : validateAndUseSave(p)
  \/ Tick

SpecRedeem == InitRedeem /\ [][NextRedeem]_vars

(* --------------------------- order creation ---------------------------- *)
\* the shop's stock in any condition, one menu code issued at time 0
Init ==
  /\ now = 0
  /\ \E q2 \in 0..InitQtyMax, act \in BOOLEAN, has2 \in BOOLEAN :
       stock = [d \in StockIds |->
                  IF d = 1 THEN StockDocInit(<<"flavor", "Strawberry">>, 1, 1, TRUE)
                  ELSE IF d = 2 /\ has2 THEN StockDocInit(<<"topping", "Mango">>, q2, 1, act)
                  ELSE NoStock]
  /\ InitStockHistory
  /\ InitProcs
  /\ \E cupSize \in CupSizes :
       codes = [c \in GenCodes |->
                  IF c = <<"A", "B", "C", "D", "E">> THEN CodeDocInit(cupSize, 0) ELSE NoCode]
  /\ redeemOk = [c \in GenCodes |-> 0]
  /\ InitNoOrders

Next ==
  \/ \E p \in Procs, input \in InputCodes, flavor \in FlavorInputs, toppings \in ToppingInputs,
        user \in Users \cup {"none"}, customerCode \in TrackingCodes :
       reqs < MaxOrderReqs /\ createOrderStart(p, input, flavor, toppings, user, customerCode)
  \/ \E p \in Procs : createOrderFindUser(p)
  \/ \E p \in Procs : createOrderUserSave(p)
  \/ \E p \in Procs : createOrderSave(p)
  \/ Tick

Spec == Init /\ [][Next]_vars

(* ------------------------------ pricing -------------------------------- *)
\* one menu code of any cup size; the customer's card is empty or one stamp short
\* of the free drink
InitPrice ==
  /\ now = 0
  /\ stock = [d \in StockIds |-> NoStock]
  /\ InitStockHistory
  /\ InitProcs
  /\ \E cupSize \in CupSizes :
       codes = [c \in GenCodes |->
                  IF c = <<"A", "B", "C", "D", "E">> THEN CodeDocInit(cupSize, 0) ELSE NoCode]
  /\ redeemOk = [c \in GenCodes |-> 0]
  /\ orders = {}
  /\ \E n \in {0, LoyaltyThreshold - 1} :
       users = [u \in Users |-> [NoLoyalty EXCEPT !.stamps = n]]
  /\ reqs = 0

NextPrice ==
  \/ \E p \in Procs, toppings \in PricedToppingInputs, user \in Users \cup {"none"},
        customerCode \in TrackingCodes :
       reqs < MaxPriceReqs
         /\ createOrderStart(p, <<"a", "b", "c", "d", "e">>, "Strawberry", toppings, user,
                             customerCode)
  \/ \E p \in Procs : createOrderFindUser(p)
  \/ \E p \in Procs : createOrderUserSave(p)
  \/ \E p \in Procs : createOrderSave(p)

SpecPrice == InitPrice /\ [][NextPrice]_vars

(* ------------------------------ loyalty -------------------------------- *)
Digits == <<"0", "1", "2", "3", "4", "5", "6", "7", "8", "9">>

\* the customer code of the i-th request: Math.random() never repeats in these runs
LoyaltyTrackingCode(i) == <<"#", Digits[((i \div 10) % 10) + 1], Digits[(i % 10) + 1]>>

\* one menu code, one customer with an empty card
InitLoyalty ==
  /\ now = 0
  /\ stock = [d \in StockIds |-> NoStock]
  /\ InitStockHistory
  /\ InitProcs
  /\ codes = [c \in GenCodes |->
               IF c = <<"A", "B", "C", "D", "E">> THEN CodeDocInit("M", 0) ELSE NoCode]
  /\ redeemOk = [c \in GenCodes |-> 0]
  /\ InitNoOrders

\* the customer places one order after the other
NextLoyalty ==
  \/ \E p \in Procs, toppings \in ToppingInputs :
       /\ reqs < MaxLoyaltyOrders
       /\ \A q \in Procs : pc[q] = "idle"
       /\ createOrderStart(p, <<"a", "b", "c", "d", "e">>, "Strawberry", toppings, "u1",
                           LoyaltyTrackingCode(reqs + 1))
  \/ \E p \in Procs : createOrderFindUser(p)
  \/ \E p \in Procs : createOrderUserSave(p)
  \/ \E p \in Procs : createOrderSave(p)

SpecLoyalty == InitLoyalty /\ [][NextLoyalty]_vars

(* --------------------------- code generation --------------------------- *)
\* any part of the code space is taken
InitGenerate ==
  /\ now = 0
  /\ stock = [d \in StockIds |-> NoStock]
  /\ InitStockHistory
  /\ InitProcs
  /\ \E taken \in SUBSET GenCodes :
       codes = [c \in GenCodes |-> IF c \in taken THEN CodeDocInit("M", 0) ELSE NoCode]
  /\ redeemOk = [c \in GenCodes |-> 0]
  /\ InitNoOrders

NextGenerate ==
  \/ \E p \in Procs : reqs < MaxGenReqs /\ createCodeStart(p, "M")
  \/ \E p \in Procs : generateCodeRetry(p)
  \/ \E p \in Procs : createCodeSave(p)

SpecGenerate == InitGenerate /\ [][NextGenerate]_vars

(* ------------------------------ tracking ------------------------------- *)
NextTrack ==
  \/ \E p \in Procs, customerCode \in TrackingCodes :
       reqs < MaxTrackOps
         /\ createOrderStart(p, <<"a", "b", "c", "d", "e">>, "Strawberry", <<>>, "none",
                             customerCode)
  \/ \E p \in Procs : createOrderSave(p)
  \/ \E p \in Procs, input \in TrackInputs : reqs < MaxTrackOps /\ trackOrder(p, input)

SpecTrack == InitLoyalty /\ [][NextTrack]_vars

(* --------------------------- status updates --------------------------- *)
\* an order as a guest's POST /create stored it at time 0
OrderDocInit(id, customerCode, cupSize, toppings) ==
  calculateTotal(
    [id |-> id, customerId |-> "none", menuCode |-> <<"A", "B", "C", "D", "E">>,
     customerCode |-> customerCode, cupSize |-> cupSize,
     flavor |-> "Strawberry", toppings |-> toppings,
     pricing |-> [basePrice |-> BasePrice, sizePrice |-> 0, toppingsPrice |-> 0, total |-> 0],
     status |-> "Pending", paymentStatus |-> "Paid", isFreeDrink |-> FALSE,
     timestamps |-> [ordered |-> 0, prepared |-> NoDate, ready |-> NoDate,
                     completed |-> NoDate]])

\* the ids admins name in requests: the stored orders' and one that is not stored
OrderIdInputs == 1..(MaxStoredOrders + 1)

InitStatus ==
  /\ now = 0
  /\ stock = [d \in StockIds |-> NoStock]
  /\ InitStockHistory
  /\ InitProcs
  /\ codes = [c \in GenCodes |->
               IF c = <<"A", "B", "C", "D", "E">> THEN CodeDocInit("M", 0) ELSE NoCode]
  /\ redeemOk = [c \in GenCodes |-> 0]
  /\ users = [u \in Users |-> NoLoyalty]
  /\ reqs = 0
  /\ \E n \in 1..MaxStoredOrders :
       orders = {OrderDocInit(1, <<"#", "A", "1", "B", "2", "C">>, "M", <<>>)}
                  \cup {OrderDocInit(i, <<"#", "Z", "9">>, "L", <<"Mango">>) : i \in 2..n}

NextStatus ==
  \/ \E p \in Procs, id \in OrderIdInputs, status \in StatusInputs :
       reqs < MaxStatusOps /\ updateStatusRead(p, id, status)
  \/ \E p \in Procs : updateStatusSave(p)
  \/ Tick

SpecStatus == InitStatus /\ [][NextStatus]_vars

(* --------------------------- stock claims ------------------------------ *)
\* every successful change of document d so far was a reduceStock of amount a
OnlyReducedBy(d, a) == incTotal[d] = 0 /\ decTotal[d] = a * decCnt[d][a]

\* C4: reduceStock checks and subtracts as one atomic conditional update: while an
\* item is only decremented by amount a, under any interleaving, the number of
\* successful decrements never exceeds floor(initial quantity / a) and every
\* successful decrement is reflected in the stored quantity.
C4_ReduceStockAtomic ==
  \A d \in StockIds, a \in Amounts :
    (stock[d].present /\ OnlyReducedBy(d, a)) =>
      /\ decCnt[d][a] <= initQty[d] \div a
      /\ stock[d].quantity = initQty[d] - a * decCnt[d][a]

\* C5: after any decrements and increments the stored quantity of every item is
\* non-negative and equals initial quantity - total decremented + total incremented.
C5_StockLedger ==
  \A d \in StockIds :
    stock[d].present =>
      /\ stock[d].quantity >= 0
      /\ stock[d].quantity = initQty[d] - decTotal[d] + incTotal[d]

(* ------------------------- menu code claims ---------------------------- *)
\* C2: a code with maxUsage N is redeemed successfully at most N times in total
\* under any interleaving of redemption attempts, and a redemption is refused with
\* the usage-limit error only once N redemptions have succeeded.
C2_AtMostMaxUsageRedemptions ==
  \A c \in GenCodes :
    codes[c].present =>
      /\ redeemOk[c] <= codes[c].maxUsage
      /\ (last.op = "validateAndUse" /\ last.out = "UsageLimitReached")
            => redeemOk[c] >= codes[c].maxUsage

\* C6: in every reachable state every stored menu code has usageCount <= maxUsage,
\* whatever generate, validate, redeem, order-creation and cleanup steps led to it.
C6_UsageWithinMax ==
  \A c \in GenCodes : codes[c].present => codes[c].usageCount <= codes[c].maxUsage

\* a redemption has just succeeded and brought a code to its last use
C6_Witness ==
  /\ last.op = "validateAndUse" /\ last.out = "ok"
  /\ \E c \in GenCodes :
       /\ codes[c].present
       /\ codes[c].usageCount = codes[c].maxUsage
       /\ redeemOk[c] = codes[c].maxUsage

(* --------------------------- order claims ------------------------------ *)
\* the orders the step stores
NewOrders == orders' \ orders

\* how many units of the stock item key the order o asks for
UnitsOf(o, key) ==
  IF key[1] = "flavor" THEN (IF o.flavor = key[2] THEN 1 ELSE 0)
  ELSE Cardinality({i \in DOMAIN o.toppings : o.toppings[i] = key[2]})

\* the stored orders that ask for the stock item key
OrdersUsing(key) == {o \in orders : UnitsOf(o, key) > 0}

\* process p takes a step of POST /create
CreateOrderPcs == {"createOrder_findUser", "createOrder_userSave", "createOrder_save"}

CreateOrderStep(p) ==
  \/ pc[p] \in CreateOrderPcs /\ pc'[p] # pc[p]
  \/ pc[p] = "idle" /\ pc'[p] \in CreateOrderPcs
  \/ Arrive(p) /\ reqs' = reqs + 1 /\ pc' = pc /\ last'.op = "createOrder"

\* the step of p that answers 201
CreateOrderSuccess(p) ==
  pc[p] = "createOrder_save" /\ pc'[p] = "idle" /\ last'.out = "created"

\* C1: for a stock item that starts with quantity 1, of the orders that each ask
\* for one unit of it exactly one is created (the others fail), and the quantity
\* after it is 0.
C1_OneUnitOneOrder ==
  \A d \in StockIds :
    (stock[d].present /\ initQty[d] = 1) =>
      /\ Cardinality(OrdersUsing(stock[d].key)) <= 1
      /\ Cardinality(OrdersUsing(stock[d].key)) = 1 => stock[d].quantity = 0

\* C3: order creation is all-or-nothing: every step of an attempt other than the
\* one that answers success leaves the orders, every stock document and every menu
\* code as they were, so an attempt that fails at any step has stored no order and
\* changed no stock quantity and no usageCount/usedBy.
C3_AllOrNothing ==
  [][\A p \in Procs :
       (CreateOrderStep(p) /\ ~CreateOrderSuccess(p)) => UNCHANGED <<orders, stock, codes>>]_vars

\* an attempt got as far as order.save(), which failed, after another order was stored
C3_Witness ==
  last.op = "createOrder" /\ last.out = "SaveFailed" /\ orders # {}

\* C7: no order is created against a code that does not exist, is past expiresAt,
\* or has usageCount >= maxUsage (the attempt fails with InvalidMenuCode,
\* CodeExpired, UsageLimitReached).
C7_OrderRejectsUnusableCode ==
  [][\A o \in NewOrders :
       /\ CodeFindOne(o.menuCode) # <<>>
       /\ ~codeExpired(codes[o.menuCode], now)
       /\ codes[o.menuCode].usageCount < codes[o.menuCode].maxUsage]_vars

\* C8: every successful order creation raises the usageCount of its code by one and
\* appends a usedBy entry for the new order, and the orders created against a code
\* never outnumber its maxUsage.
C8_OrderConsumesOneUse ==
  [][\A o \in NewOrders :
       /\ CodeFindOne(o.menuCode) # <<>>
       /\ codes'[o.menuCode].usageCount = codes[o.menuCode].usageCount + 1
       /\ codes'[o.menuCode].usedBy = Append(codes[o.menuCode].usedBy, o.id)
       /\ Cardinality({x \in orders' : x.menuCode = o.menuCode})
            <= codes[o.menuCode].maxUsage]_vars

\* C9: every successful order creation lowers the quantity of the order's flavor by
\* 1 and of each of its toppings by 1 and leaves every other stock quantity alone.
C9_OrderDecrementsStock ==
  [][\A o \in NewOrders : \A d \in StockIds :
       stock[d].present =>
         /\ stock'[d].present
         /\ stock'[d].quantity = stock[d].quantity - UnitsOf(o, stock[d].key)]_vars

\* C10: an order is created only if its flavor and every one of its toppings is
\* available (exists, active, quantity > 0); otherwise the attempt is rejected
\* with ItemUnavailable and no order is created.
C10_OrderChecksAvailability ==
  [][\A o \in NewOrders :
       /\ isAvailable(<<"flavor", o.flavor>>)
       /\ \A i \in DOMAIN o.toppings : isAvailable(<<"topping", o.toppings[i]>>)]_vars

(* ------------------------ order status claims -------------------------- *)
\* the status changes the order lifecycle allows
AllowedTransitions ==
  {<<"Pending", "Preparing">>, <<"Preparing", "Ready">>, <<"Ready", "Completed">>,
   <<"Pending", "Cancelled">>, <<"Preparing", "Cancelled">>, <<"Ready", "Cancelled">>}

\* C11: the status of an order changes only along Pending -> Preparing -> Ready ->
\* Completed, or to Cancelled from Pending, Preparing or Ready; any other requested
\* change leaves the order as it was, so Completed and Cancelled are final.
C11_StatusTransitions ==
  [][\A o \in orders, n \in orders' :
       (o.id = n.id /\ o.status # n.status) => <<o.status, n.status>> \in AllowedTransitions]_vars

(* --------------------------- pricing claims ---------------------------- *)
\* the orders the store holds and the ones requests hold in memory, priced
PricedOrders ==
  orders \cup {loc[p].order : p \in {q \in Procs : pc[q] \in CreateOrderPcs}}

\* the size surcharge of the price list
sizeSurcharge(cupSize) == IF cupSize = "M" THEN 10 ELSE IF cupSize = "L" THEN 20 ELSE 0

\* C12: every order that is not free has pricing.total = 60 + the size surcharge
\* (S 0, M 10, L 20) + 10 per topping, so (S, no topping) costs 60 and (L, three
\* toppings) 110, and calculateTotal called again on the order gives the same total.
C12_TotalFormula ==
  \A o \in PricedOrders :
    /\ ~o.isFreeDrink =>
         o.pricing.total = 60 + sizeSurcharge(o.cupSize) + 10 * Len(o.toppings)
    /\ (~o.isFreeDrink /\ o.cupSize = "S" /\ Len(o.toppings) = 0) => o.pricing.total = 60
    /\ (~o.isFreeDrink /\ o.cupSize = "L" /\ Len(o.toppings) = 3) => o.pricing.total = 110
    /\ calculateTotal(o).pricing.total = o.pricing.total

\* a large order with three toppings is stored at 110
C12_Witness ==
  \E o \in orders :
    ~o.isFreeDrink /\ o.cupSize = "L" /\ Len(o.toppings) = 3 /\ o.pricing.total = 110

\* C13: a free-drink order has pricing.total 0 and still records the breakdown
\* (basePrice, sizePrice, toppingsPrice) of a paid order of the same size and
\* toppings; and only free-drink orders have pricing.total 0.
C13_FreeDrinkPricing ==
  \A o \in orders :
    /\ o.isFreeDrink =>
         /\ o.pricing.total = 0
         /\ o.pricing.basePrice = 60
         /\ o.pricing.sizePrice = sizeSurcharge(o.cupSize)
         /\ o.pricing.toppingsPrice = 10 * Len(o.toppings)
    /\ o.pricing.total = 0 => o.isFreeDrink

\* a free drink with a size surcharge and toppings is stored
C13_Witness ==
  \E o \in orders :
    /\ o.isFreeDrink /\ o.pricing.total = 0
    /\ o.pricing.sizePrice > 0 /\ o.pricing.toppingsPrice > 0

(* --------------------------- loyalty claims ---------------------------- *)
\* the stored orders of customer u, and the place of one of them in their sequence
OrdersOf(u) == {o \in orders : o.customerId = u}

Ordinal(u, o) == Cardinality({x \in OrdersOf(u) : x.id <= o.id})

NoRequestInFlight == \A p \in Procs : pc[p] = "idle"

\* C14: for a customer who starts with no stamp and places paid orders one after
\* the other, every tenth successfully created order, and no other, brings a free
\* drink: after ten orders the card is back at 0 stamps with one free drink
\* granted, the tenth order is stored free with total 0, and the nine others keep
\* their computed totals.
C14_TenOrdersOneFreeDrink ==
  NoRequestInFlight =>
    \A u \in Users :
      LET k == Cardinality(OrdersOf(u)) IN
        /\ users[u].stamps = k % 10
        /\ users[u].totalFreeDrinks = k \div 10
        /\ \A o \in OrdersOf(u) :
             /\ o.isFreeDrink <=> (Ordinal(u, o) % 10 = 0)
             /\ o.isFreeDrink => o.pricing.total = 0
             /\ ~o.isFreeDrink =>
                  o.pricing.total = 60 + sizeSurcharge(o.cupSize) + 10 * Len(o.toppings)

\* ten orders are stored, the tenth is the free one, the card is empty again
C14_Witness ==
  /\ NoRequestInFlight
  /\ Cardinality(OrdersOf("u1")) = 10
  /\ users["u1"].stamps = 0 /\ users["u1"].totalFreeDrinks = 1
  /\ \E o \in OrdersOf("u1") : o.id = 10 /\ o.isFreeDrink /\ o.pricing.total = 0
  /\ Cardinality({o \in OrdersOf("u1") : ~o.isFreeDrink /\ o.pricing.total > 0}) = 9

\* process p takes the step that saves the customer's card
UserSaveStep(p) == pc[p] = "createOrder_userSave" /\ pc'[p] = "createOrder_save"

\* C15: the loyalty card changes only when the order creation of an authenticated
\* customer saves it, once per order: that step adds exactly one stamp to the
\* customer of the order (the tenth wraps to 0) and changes no other customer; a
\* guest order changes no customer's stamps, free drinks or points.
C15_OneStampPerOrder ==
  [][\A u \in Users :
       /\ users'[u] # users[u] =>
            \E p \in Procs : UserSaveStep(p) /\ loc[p].order.customerId = u
       /\ \A p \in Procs :
            (UserSaveStep(p) /\ loc[p].order.customerId = u) =>
               /\ users'[u].stamps = (users[u].stamps + 1) % 10
               /\ \A v \in Users \ {u} : users'[v] = users[v]]_vars

(* ------------------------- validation claims --------------------------- *)
\* the step is a POST /validate
ValidateStep == reqs' = reqs + 1 /\ pc' = pc /\ last'.op = "validate"

\* the stored codes that equal the input when letter case is ignored
CodesMatching(input) ==
  {c \in GenCodes : codes[c].present /\ toUpperCase(c) = toUpperCase(input)}

\* C16: validating a menu code changes no stored code and answers InvalidCode when
\* no stored code matches the input (letter case ignored), else CodeExpired when
\* the time is past expiresAt, else UsageLimitReached when usageCount >= maxUsage,
\* else valid with remainingUses = maxUsage - usageCount and the code's cup size.
C16_ValidateReadOnly ==
  [][ValidateStep =>
       /\ UNCHANGED <<codes, orders, stock, users>>
       /\ IF CodesMatching(last'.input) = {}
            THEN last'.out = "InvalidCode"
            ELSE \A c \in CodesMatching(last'.input) :
                   IF now > codes[c].expiresAt THEN last'.out = "CodeExpired"
                   ELSE IF codes[c].usageCount >= codes[c].maxUsage
                     THEN last'.out = "UsageLimitReached"
                   ELSE /\ last'.out = "valid"
                        /\ last'.remainingUses = codes[c].maxUsage - codes[c].usageCount
                        /\ last'.cupSize = codes[c].cupSize]_vars

\* a code typed in lower case was found valid with one use left
C16_Witness ==
  /\ last.op = "validate" /\ last.out = "valid"
  /\ last.input = <<"a", "b", "c", "d", "e">>
  /\ last.remainingUses = 1

\* the input names a stored code that is before its expiry and below its limit
Usable(input) ==
  \E c \in CodesMatching(input) :
    now < codes[c].expiresAt /\ codes[c].usageCount < codes[c].maxUsage

\* C17: at every time, the instant expiresAt included, validation, redemption and
\* order creation each accept a menu code if and only if the time is before
\* expiresAt and usageCount < maxUsage, so the three agree.
C17_UsableIffAgreed ==
  [][\A p \in Procs, input \in InputCodes :
       /\ validateCode(p, input) => (last'.out = "valid" <=> Usable(input))
       /\ validateAndUseRead(p, input, 0) =>
            (pc'[p] = "validateAndUse_save" <=> Usable(input))
       /\ \A customerCode \in TrackingCodes :
            createOrderStart(p, input, "Strawberry", <<>>, "none", customerCode) =>
              (pc'[p] = "createOrder_save" <=> Usable(input))]_vars

(* --------------------------- cleanup claims ---------------------------- *)
\* C18: a menu code against which an order was created is never deleted by
\* cleanupExpired, also after its expiry, so the menuCode of a stored order goes on
\* naming a stored code.
C18_UsedCodesRetained ==
  [][\A c \in GenCodes :
       (codes[c].present /\ \E o \in orders : o.menuCode = c) => codes'[c].present]_vars

(* -------------------------- generation claims -------------------------- *)
\* the alphabet of menu codes
CodeChars ==
  {UpperAlpha[k] : k \in DOMAIN UpperAlpha}
    \cup {"0", "1", "2", "3", "4", "5", "6", "7", "8", "9"}

\* the step of p is a pass of generateCode's loop
GenerateStep(p) ==
  /\ pc[p] \in {"idle", "generateCode"}
  /\ \/ pc'[p] \in {"generateCode", "createCode_save"} /\ loc'[p] # loc[p]
     \/ pc'[p] = "idle" /\ last'.op = "createCode" /\ last'.out = "CodeSpaceExhausted"
                        /\ (pc[p] = "generateCode" \/ (Arrive(p) /\ reqs' = reqs + 1))

\* the collisions p has seen before the step
AttemptsBefore(p) == IF pc[p] = "generateCode" THEN loc[p].attempts ELSE 0

\* C19: code generation makes at most 100 attempts: it returns a 5-character code
\* over A-Z and 0-9 that matched no stored code when it was looked up, or fails
\* with CodeSpaceExhausted on the 100th collision; and a code is stored only when
\* no stored code equals it, also when two generations run concurrently.
C19_GenerationBounded ==
  [][\A p \in Procs :
       /\ GenerateStep(p) =>
            /\ AttemptsBefore(p) < 100
            /\ pc'[p] = "createCode_save" =>
                 /\ Len(loc'[p].code) = 5
                 /\ \A i \in 1..5 : loc'[p].code[i] \in CodeChars
                 /\ CodeFindOne(loc'[p].code) = <<>>
            /\ pc'[p] = "idle" => AttemptsBefore(p) = 99
       /\ (pc[p] = "createCode_save" /\ pc'[p] = "idle" /\ last'.out = "created") =>
            /\ CodeFindOne(loc[p].code) = <<>>
            /\ codes'[loc[p].code].present]_vars

\* a generation gave up after its 100th collision
C19_Witness ==
  /\ last.op = "createCode" /\ last.out = "CodeSpaceExhausted"
  /\ \A c \in GenCodes : codes[c].present

(* --------------------------- tracking claims --------------------------- *)
\* a tracking code without its leading "#", in upper case
Normalized(str) ==
  LET upper == toUpperCase(str) IN
    IF Len(upper) > 0 /\ upper[1] = "#" THEN Tail(upper) ELSE upper

\* the step is a tracking lookup
TrackStep == reqs' = reqs + 1 /\ pc' = pc /\ last'.op = "track"

\* C20: a tracking lookup returns the stored order whose tracking code equals the
\* lookup value when letter case and a leading "#" are ignored, and answers
\* OrderNotFound, never another order, when no stored order has that code.
C20_TrackLookup ==
  [][TrackStep =>
       LET hits == {o \in orders : Normalized(o.customerCode) = Normalized(last'.input)} IN
         IF hits = {} THEN last'.out = "OrderNotFound"
         ELSE last'.out = "found" /\ last'.order \in hits]_vars

(* ------------------------ order request claims ------------------------- *)
\* C21: every stored order has at most 3 toppings: a request with more than 3
\* toppings is rejected and stores no order, whichever client sends it.
C21_AtMostThreeToppings ==
  \A o \in orders : Len(o.toppings) <= 3

\* C22: order creation answers success only if each of its side-effect steps
\* succeeded: a failure of the menu-code consumption step (or of the loyalty
\* update) is answered as an error, never caught and dropped.
C22_SuccessOnlyIfStepsSucceeded ==
  (last.op = "createOrder" /\ last.out = "created") => ~last.codeError

(* ----------------------- stock operation claims ------------------------ *)
\* the step of p that ends a reduceStock call before its save
ReduceStockRefused(p) ==
  Arrive(p) /\ reqs' = reqs + 1 /\ pc' = pc /\ last'.op = "reduceStock"

\* the step of p that ends a reduceStock call with the saved document
ReduceStockDone(p) ==
  pc[p] = "reduceStock_save" /\ pc'[p] = "idle" /\ last'.out = "ok"

\* C23: a stock decrement that finds no item for (category, name) or finds
\* quantity < amount ends with that outcome and changes no stock quantity; every
\* other decrement lowers the stored quantity of its item by exactly amount and
\* leaves the other items alone.
C23_ReduceStockOutcomes ==
  [][\A p \in Procs :
       /\ ReduceStockRefused(p) =>
            /\ last'.out \in {"null", "InsufficientStock"}
            /\ stock' = stock
       /\ ReduceStockDone(p) =>
            stock' = [stock EXCEPT ![loc[p].id].quantity = @ - loc[p].amount]]_vars

(* ------------------------ code cleanup claims -------------------------- *)
\* the step that answers DELETE /api/menu-codes/admin/cleanup
CleanupStep ==
  reqs' = reqs + 1 /\ pc' = pc /\ last'.op = "cleanup"

\* C24: cleanupExpired deletes exactly the codes with usageCount = 0 and
\* expiresAt before the current time, leaves every other code as it was, and
\* returns the number of codes it deleted.
C24_CleanupExactlyUnusedExpired ==
  [][CleanupStep =>
       /\ \A c \in GenCodes :
            IF codes[c].present /\ codes[c].usageCount = 0 /\ codes[c].expiresAt < now
              THEN ~codes'[c].present
              ELSE codes'[c] = codes[c]
       /\ last'.deletedCount =
            Cardinality({c \in GenCodes : codes[c].present /\ ~codes'[c].present})]_vars

\* a cleanup deleted an unused expired code and kept an expired code that was used
C24_Witness ==
  /\ last.op = "cleanup" /\ last.deletedCount = 1
  /\ \E c \in GenCodes : codes[c].present /\ codes[c].expiresAt < now

(* -------------------------- low stock claims --------------------------- *)
\* the step in which the initialisation of p decides to restock an item
InitializeDecidesRestock(p) ==
  pc[p] # "initialize_save" /\ pc'[p] = "initialize_save"

\* C25: the low-stock rule is strict and the same everywhere: the low-stock
\* query answers exactly the items with quantity < reorderLevel, and the
\* initialisation restocks an item only if that query counts it as low.
C25_LowStockRuleConsistent ==
  [][/\ (reqs' = reqs + 1 /\ pc' = pc /\ last'.op = "low") =>
          last'.lowStock =
            {d \in StockIds : stock[d].present /\ stock[d].quantity < stock[d].reorderLevel}
     /\ \A p \in Procs :
          InitializeDecidesRestock(p) =>
            stock[loc'[p].id].quantity < stock[loc'[p].id].reorderLevel]_vars

(* ----------------------- status timestamp claims ----------------------- *)
\* the timestamps t are all set and in the order given by the sequence names
StampedInOrder(t, names) ==
  /\ \A i \in 1..Len(names) : t[names[i]] # NoDate
  /\ \A i \in 1..(Len(names) - 1) : t[names[i]] <= t[names[i + 1]]

\* C26: a status update stamps the timestamp of the new status (Preparing ->
\* prepared, Ready -> ready, Completed -> completed) and leaves the other
\* timestamps as they were; hence a stored order in status Ready or Completed has
\* every timestamp up to its status set, with ordered <= prepared <= ready <=
\* completed.
C26_StatusTimestamps ==
  [][/\ \A o \in orders, n \in orders' :
          (o.id = n.id /\ n # o) =>
            /\ n.status \in DOMAIN statusTimestamps =>
                 /\ n.timestamps[statusTimestamps[n.status]] # NoDate
                 /\ \A f \in DOMAIN o.timestamps \ {statusTimestamps[n.status]} :
                      n.timestamps[f] = o.timestamps[f]
            /\ n.status \notin DOMAIN statusTimestamps => n.timestamps = o.timestamps
     /\ \A n \in orders' :
          /\ n.status = "Ready" =>
               StampedInOrder(n.timestamps, <<"ordered", "prepared", "ready">>)
          /\ n.status = "Completed" =>
               StampedInOrder(n.timestamps, <<"ordered", "prepared", "ready", "completed">>)]_vars

(* --------------------------- restock claims ---------------------------- *)
\* the step in which p's restock (PUT /:id/restock, or the restock branch of
\* POST /initialize) saved its item
RestockDone(p) ==
  \/ pc[p] = "restock_save" /\ pc'[p] = "idle" /\ last'.out = "ok"
  \/ /\ pc[p] = "initialize_save"
     /\ pc'[p] = "initialize_find" \/ (pc'[p] = "idle" /\ last'.out = "ok")

\* C27: a restock adds exactly the item's reorderLevel to its stored quantity
\* (new quantity = old quantity + reorderLevel), sets its lastRestocked to the
\* time of the request, and changes no other item.
C27_RestockAddsReorderLevel ==
  [][\A p \in Procs :
       RestockDone(p) =>
         stock' = [stock EXCEPT ![loc[p].id].quantity = @ + stock[loc[p].id].reorderLevel,
                                ![loc[p].id].lastRestocked = loc[p].time]]_vars

(* ------------------------ usage record claims -------------------------- *)
\* C28: in every reachable state the usageCount of every menu code equals the
\* number of entries of its usedBy list, under any sequence or interleaving of
\* redemptions of the code.
C28_UsageCountIsUsedByLength ==
  \A c \in GenCodes : codes[c].present => codes[c].usageCount = Len(codes[c].usedBy)

(* ------------------------ loyalty frame claims ------------------------- *)
\* the step in which the order.save() of p's attempt fails
CreateOrderSaveFailed(p) ==
  pc[p] = "createOrder_save" /\ pc'[p] = "idle" /\ last'.out = "SaveFailed"

\* C29: loyalty state changes only for orders that are stored: when order.save()
\* fails, the customer's loyalty fields are as they were before the attempt, so
\* the order history does not hold the id of the order that was not stored.
C29_NoLoyaltyWithoutOrder ==
  [][\A p \in Procs :
       (CreateOrderSaveFailed(p) /\ loc[p].order.customerId \in Users) =>
         \A i \in DOMAIN users'[loc[p].order.customerId].orderHistory :
           users'[loc[p].order.customerId].orderHistory[i] # loc[p].order.id]_vars

(* ------------------------- adjustment claims --------------------------- *)
\* the step of p that answers an adjustment before its save (404 or 400)
AdjustRefused(p) ==
  Arrive(p) /\ reqs' = reqs + 1 /\ pc' = pc /\ last'.op = "adjust"

\* the step of p that saves an accepted adjustment
AdjustDone(p) ==
  pc[p] = "adjust_save" /\ pc'[p] = "idle" /\ last'.out = "ok"

\* C30: an adjustment that would make the quantity negative is rejected and
\* leaves the item's quantity and lastRestocked as they were; an accepted
\* adjustment changes the stored quantity by exactly the adjustment, never below
\* 0, and sets lastRestocked only when the adjustment is positive.
C30_AdjustFrame ==
  [][\A p \in Procs :
       /\ AdjustRefused(p) => stock' = stock
       /\ AdjustDone(p) =>
            /\ stock[loc[p].id].quantity + loc[p].amount >= 0
            /\ stock' = [stock EXCEPT
                           ![loc[p].id].quantity = @ + loc[p].amount,
                           ![loc[p].id].lastRestocked =
                              IF loc[p].amount > 0 THEN loc[p].time ELSE @]]_vars

====
